---- MODULE Spec2Model ----
(***************************************************************************)
(* The point-of-sale cart and checkout of src/src/components/Sell.tsx.     *)
(*                                                                         *)
(* Money is counted in units of 0.005 currency units, so that amounts      *)
(* strictly inside the 0.01 tolerance of the payment check exist; Epsilon  *)
(* is 0.01 in these units.  Arithmetic is exact (the rounding of IEEE      *)
(* doubles is not modelled).                                               *)
(***************************************************************************)
EXTENDS Integers, Sequences, FiniteSets

VARIABLES
  products,          \* the catalog snapshot: stock of each listed product
  cart,              \* CartItem[]
  discount,          \* text of the discount input
  paymentMethod,     \* 'cash' | 'bank' | 'telebirr'
  paymentSplits,     \* { cash, bank, telebirr }
  showSplitPayment,  \* split mode
  processing,        \* a sale is being processed
  showConfirmation,  \* the success overlay is shown
  selectedCustomer,  \* the selected customer, or NoCustomer
  customerTyped,     \* customerName.trim() && customerPhone.trim()
  customersDb,       \* phones that have a row in menal_customers
  inflight,          \* the running calls of handleCompleteSale
  timers,            \* pending setTimeout callbacks of completed sales
  last,              \* the last handler that ran and what it signalled
  menal_products,    \* server: stock of each row of menal_products
  menal_sales,       \* server: the rows of menal_sales with their items
  requests,          \* server: the route handlers that are running
  response,          \* server: the last response sent
  deducted,          \* server: what the stock updates of sales took, in all
  returned           \* server: how often each sale's items were put back

ledgerVars == << discount, paymentMethod, paymentSplits, showSplitPayment >>

customerVars == << selectedCustomer, customerTyped, customersDb >>

saleVars == << processing, showConfirmation, inflight, timers >>

\* the state of the server (supabase/functions/server/index.tsx)
server ==
  << menal_products, menal_sales, requests, response, deducted, returned >>

vars ==
  << products, cart, ledgerVars, customerVars, saleVars, last, server >>

(***************************************************************************)
(* Bounds of the model.                                                    *)
(***************************************************************************)
MaxStock == 2

MaxTimers == 1

\* 0.01 in units of 0.005
Epsilon == 2

Products == {"A", "B"}

Methods == {"cash", "bank", "telebirr"}

\* the catalog price of a product (menal_products.price), in units
CatalogPrice(p) == IF p = "A" THEN 4 ELSE 2

(***************************************************************************)
(* Text of an input field and JavaScript's parseFloat.  A text is empty,   *)
(* the decimal notation of a number, or something that is no number.       *)
(***************************************************************************)
EmptyText == [kind |-> "empty", num |-> 0]

NumText(n) == [kind |-> "num", num |-> n]

BadText == [kind |-> "bad", num |-> 0]

\* parseFloat(t): a number, or NaN
ParseFloat(t) ==
  IF t.kind = "num" THEN [nan |-> FALSE, num |-> t.num]
                    ELSE [nan |-> TRUE, num |-> 0]

\* x || 0 on a number: NaN and 0 are falsy
OrZero(x) == IF x.nan \/ x.num = 0 THEN 0 ELSE x.num

\* CartItem.price is number | string
NumberV(n) == [type |-> "number", text |-> EmptyText, num |-> n]

StringV(t) == [type |-> "string", text |-> t, num |-> 0]

\* typeof item.price === 'string' ? parseFloat(item.price) || 0 : item.price
ResolvePriceFallbackOne(price) ==
  IF price.type = "string" THEN 1 ELSE price.num

ResolvePrice(price) ==
  IF price.type = "string" THEN OrZero(ParseFloat(price.text)) ELSE price.num

Max(a, b) == IF a >= b THEN a ELSE b

Abs(a) == IF a >= 0 THEN a ELSE -a

Min(S) == CHOOSE x \in S : \A y \in S : x <= y

(***************************************************************************)
(* Derived values of a render (Sell.tsx 244-271).                          *)
(***************************************************************************)
\* cart.reduce((sum, item) => sum + price * item.quantity, 0)
RECURSIVE CartReduce(_, _)
CartReduce(c, sum) ==
  IF c = << >> THEN sum
  ELSE CartReduce(Tail(c), sum + ResolvePrice(Head(c).price) * Head(c).quantity)

SubtotalOf(c) == CartReduce(c, 0)

\* parseFloat(discount) || 0
DiscountAmountOf(d) == OrZero(ParseFloat(d))

\* Math.max(0, subtotal - discountAmount)
TotalOf(c, d) == Max(0, SubtotalOf(c) - DiscountAmountOf(d))

TotalPaidOf(s) == s.cash + s.bank + s.telebirr

RemainingOf(c, d, s) == TotalOf(c, d) - TotalPaidOf(s)

IsPaymentCompleteAlways(c, d, s, split) == TRUE

IsPaymentCompleteIgnoresMode(c, d, s, split) ==
  Abs(RemainingOf(c, d, s)) < Epsilon

IsPaymentCompleteOf(c, d, s, split) ==
  IF split THEN Abs(RemainingOf(c, d, s)) < Epsilon ELSE TRUE

IsOverpaidOf(c, d, s) == RemainingOf(c, d, s) < -Epsilon

subtotal == SubtotalOf(cart)

discountAmount == DiscountAmountOf(discount)

total == TotalOf(cart, discount)

totalPaid == TotalPaidOf(paymentSplits)

remaining == RemainingOf(cart, discount, paymentSplits)

isPaymentComplete ==
  IsPaymentCompleteOf(cart, discount, paymentSplits, showSplitPayment)

isOverpaid == IsOverpaidOf(cart, discount, paymentSplits)

(***************************************************************************)
(* The cart handlers (Sell.tsx 171-242), as functions of the cart.         *)
(***************************************************************************)
Matching(c, p) == {i \in DOMAIN c : c[i].productId = p}

\* cart.find(item => item.productId === product.id)
HasItem(c, p) == Matching(c, p) # {}

ExistingItem(c, p) == c[Min(Matching(c, p))]

NewItem(product) ==
  [productId |-> product.id, quantity |-> 1, price |-> NumberV(product.price),
   originalPrice |-> product.price, stock |-> product.stock]

AddToCartRejects(c, product) ==
  HasItem(c, product.id) /\ ExistingItem(c, product.id).quantity >= product.stock

AddToCartAlwaysAppends(c, product) == Append(c, NewItem(product))

AddToCartRejectDrops(c, product) ==
  IF HasItem(c, product.id)
  THEN IF ExistingItem(c, product.id).quantity >= product.stock
       THEN SubSeq(c, 1, Len(c) - 1)
       ELSE [i \in DOMAIN c |->
               IF c[i].productId = product.id
               THEN [c[i] EXCEPT !.quantity = @ + 1]
               ELSE c[i]]
  ELSE Append(c, NewItem(product))

AddToCartResult(c, product) ==
  IF HasItem(c, product.id)
  THEN IF ExistingItem(c, product.id).quantity >= product.stock
       THEN c
       ELSE [i \in DOMAIN c |->
               IF c[i].productId = product.id
               THEN [c[i] EXCEPT !.quantity = @ + 1]
               ELSE c[i]]
  ELSE Append(c, NewItem(product))

UpdateQuantityItemNoFloor(item, change) ==
  IF item.quantity + change > item.stock THEN item
  ELSE [item EXCEPT !.quantity = @ + change]

UpdateQuantityItem(item, change) ==
  IF item.quantity + change <= 0 THEN item
  ELSE IF item.quantity + change > item.stock THEN item
  ELSE [item EXCEPT !.quantity = @ + change]

UpdateQuantityRejects(c, p, change) ==
  \E i \in Matching(c, p) :
     /\ c[i].quantity + change > 0
     /\ c[i].quantity + change > c[i].stock

UpdateQuantityResult(c, p, change) ==
  [i \in DOMAIN c |->
     IF c[i].productId = p THEN UpdateQuantityItem(c[i], change) ELSE c[i]]

UpdatePriceResult(c, p, newPrice) ==
  IF newPrice.kind = "empty"
  THEN [i \in DOMAIN c |->
          IF c[i].productId = p THEN [c[i] EXCEPT !.price = StringV(EmptyText)]
          ELSE c[i]]
  ELSE IF ParseFloat(newPrice).nan \/ ParseFloat(newPrice).num < 0 THEN c
  ELSE [i \in DOMAIN c |->
          IF c[i].productId = p
          THEN [c[i] EXCEPT !.price = NumberV(ParseFloat(newPrice).num)]
          ELSE c[i]]

HandlePriceBlurResult(c, p) ==
  [i \in DOMAIN c |->
     IF c[i].productId = p /\ c[i].price = StringV(EmptyText)
     THEN [c[i] EXCEPT !.price = NumberV(0)]
     ELSE c[i]]

\* cart.filter(item => item.productId !== productId)
RemoveFromCartResult(c, p) ==
  LET keep == {i \in DOMAIN c : c[i].productId # p}
      Rank(i) == Cardinality({j \in keep : j <= i})
  IN  [k \in 1..Cardinality(keep) |-> c[CHOOSE i \in keep : Rank(i) = k]]

(***************************************************************************)
(* State after construction (Sell.tsx 44-62) and after the first load of   *)
(* the catalog.                                                            *)
(***************************************************************************)
NoSplits == [cash |-> 0, bank |-> 0, telebirr |-> 0]

Op(name, arg, signal) == [op |-> name, arg |-> arg, signal |-> signal]

StockAlert == "Not enough stock available"

NoCustomer == "none"

Init ==
  /\ products \in [Products -> 1..MaxStock]
  /\ cart = << >>
  /\ discount = NumText(0)
  /\ paymentMethod = "cash"
  /\ paymentSplits = NoSplits
  /\ showSplitPayment = FALSE
  /\ processing = FALSE
  /\ showConfirmation = FALSE
  /\ selectedCustomer = NoCustomer
  /\ customerTyped = FALSE
  /\ customersDb = {}
  /\ inflight = << >>
  /\ timers = 0
  /\ last = Op("init", "-", "")
  /\ menal_products = [p \in Products |-> MaxStock]
  /\ menal_sales = << >>
  /\ requests = << >>
  /\ response = [route |-> "-", status |-> 0, error |-> ""]
  /\ deducted = [p \in Products |-> 0]
  /\ returned = << >>

cartFrame == << ledgerVars, customerVars, saleVars >>

(***************************************************************************)
(* The catalog snapshot is replaced by a fetch (Sell.tsx 69-138); only     *)
(* products with stock > 0 are listed.                                     *)
(***************************************************************************)
FetchProducts(newStock) ==
  /\ products' = newStock
  /\ last' = Op("fetchProducts", "-", "")
  /\ UNCHANGED << server, cart, cartFrame >>

ProductOf(p) == [id |-> p, price |-> CatalogPrice(p), stock |-> products[p]]

AddToCart(p) ==
  /\ products[p] > 0
  /\ cart' = AddToCartResult(cart, ProductOf(p))
  /\ last' = Op("addToCart", "-",
                IF AddToCartRejects(cart, ProductOf(p)) THEN StockAlert ELSE "")
  /\ UNCHANGED << server, products, cartFrame >>

UpdateQuantity(p, change) ==
  /\ HasItem(cart, p)
  /\ cart' = UpdateQuantityResult(cart, p, change)
  /\ last' = Op("updateQuantity", IF change < 0 THEN "dec" ELSE "inc",
                IF UpdateQuantityRejects(cart, p, change) THEN StockAlert ELSE "")
  /\ UNCHANGED << server, products, cartFrame >>

UpdatePrice(p, newPrice) ==
  /\ HasItem(cart, p)
  /\ cart' = UpdatePriceResult(cart, p, newPrice)
  /\ last' = Op("updatePrice", "-", "")
  /\ UNCHANGED << server, products, cartFrame >>

HandlePriceBlur(p) ==
  /\ HasItem(cart, p)
  /\ cart' = HandlePriceBlurResult(cart, p)
  /\ last' = Op("handlePriceBlur", "-", "")
  /\ UNCHANGED << server, products, cartFrame >>

RemoveFromCart(p) ==
  /\ HasItem(cart, p)
  /\ cart' = RemoveFromCartResult(cart, p)
  /\ last' = Op("removeFromCart", "-", "")
  /\ UNCHANGED << server, products, cartFrame >>

(***************************************************************************)
(* The cart handlers alone, with the catalog refreshed in between.         *)
(***************************************************************************)
PriceInputs == {EmptyText, BadText, NumText(-1), NumText(1)}

DoFetchProducts == \E s \in [Products -> 1..MaxStock] : FetchProducts(s)

DoAddToCart == \E p \in Products : AddToCart(p)

DoUpdateQuantity == \E p \in Products, ch \in {-1, 1} : UpdateQuantity(p, ch)

DoUpdatePrice == \E p \in Products, t \in PriceInputs : UpdatePrice(p, t)

DoHandlePriceBlur == \E p \in Products : HandlePriceBlur(p)

DoRemoveFromCart == \E p \in Products : RemoveFromCart(p)

NextCart ==
  \/ DoFetchProducts
  \/ DoAddToCart
  \/ DoUpdateQuantity
  \/ DoUpdatePrice
  \/ DoHandlePriceBlur
  \/ DoRemoveFromCart

SpecCart == Init /\ [][NextCart]_vars

(***************************************************************************)
(* Discount and payment handlers (Sell.tsx 273-290, 656-729).              *)
(***************************************************************************)
\* onChange={(e) => setDiscount(e.target.value)}
SetDiscount(t) ==
  /\ cart # << >>
  /\ discount' = t
  /\ last' = Op("setDiscount", "-", "")
  /\ UNCHANGED << server, products, cart, paymentMethod, paymentSplits,
                  showSplitPayment, customerVars, saleVars >>

SelectSingleClearsSplits(m) ==
  /\ cart # << >>
  /\ paymentMethod' = m
  /\ showSplitPayment' = FALSE
  /\ paymentSplits' = NoSplits
  /\ last' = Op("selectSingle", "-", "")
  /\ UNCHANGED << server, products, cart, discount, customerVars, saleVars >>

\* setPaymentMethod(m); setShowSplitPayment(false)
SelectSingle(m) ==
  /\ cart # << >>
  /\ paymentMethod' = m
  /\ showSplitPayment' = FALSE
  /\ last' = Op("selectSingle", "-", "")
  /\ UNCHANGED << server, products, cart, discount, paymentSplits, customerVars,
                  saleVars >>

\* setShowSplitPayment(!showSplitPayment)
ToggleSplit ==
  /\ cart # << >>
  /\ showSplitPayment' = ~showSplitPayment
  /\ last' = Op("toggleSplit", "-", "")
  /\ UNCHANGED << server, products, cart, discount, paymentMethod, paymentSplits,
                  customerVars, saleVars >>

\* what kind of value a handler was given, for the record of the call
InputClass(value) ==
  IF value.kind = "bad" THEN "non-numeric"
  ELSE IF value.kind = "num" /\ value.num < 0 THEN "negative"
  ELSE "-"

UpdatePaymentSplitResult(s, m, value) ==
  IF OrZero(ParseFloat(value)) < 0 THEN s
  ELSE [s EXCEPT ![m] = OrZero(ParseFloat(value))]

\* the split inputs are rendered only in split mode
UpdatePaymentSplit(m, value) ==
  /\ cart # << >>
  /\ showSplitPayment
  /\ paymentSplits' = UpdatePaymentSplitResult(paymentSplits, m, value)
  /\ last' = Op("updatePaymentSplit", InputClass(value), "")
  /\ UNCHANGED << server, products, cart, discount, paymentMethod, showSplitPayment,
                  customerVars, saleVars >>

PayAllIgnoresOwnAmount(s, tot, m) ==
  [s EXCEPT ![m] = Max(0, tot - TotalPaidOf(s))]

\* amountNeeded = Math.max(0, total - (totalPaid - paymentSplits[method]))
PayAllResult(s, tot, m) ==
  [s EXCEPT ![m] = Max(0, tot - (TotalPaidOf(s) - s[m]))]

\* payAll has no caller in the component: it is applied as an operation of
\* the ledger wherever the payment controls are rendered (Sell.tsx 513)
PayAll(m) ==
  /\ cart # << >>
  /\ paymentSplits' = PayAllResult(paymentSplits, total, m)
  /\ last' = Op("payAll", m, "")
  /\ UNCHANGED << server, products, cart, discount, paymentMethod, showSplitPayment,
                  customerVars, saleVars >>

ClearPayments ==
  /\ cart # << >>
  /\ showSplitPayment
  /\ paymentSplits' = NoSplits
  /\ last' = Op("clearPayments", "-", "")
  /\ UNCHANGED << server, products, cart, discount, paymentMethod, showSplitPayment,
                  customerVars, saleVars >>

(***************************************************************************)
(* The payment ledger over a cart of one product.                          *)
(***************************************************************************)
MaxAmount == 3

DiscountInputs == {EmptyText, NumText(1), NumText(9)}

SplitInputs == {EmptyText, BadText, NumText(-1), NumText(1), NumText(MaxAmount)}

InitTender == Init /\ products = [p \in Products |-> MaxStock]

TenderAddToCart == AddToCart("A")

TenderRemoveFromCart == RemoveFromCart("A")

DoSetDiscount == \E t \in DiscountInputs : SetDiscount(t)

DoSelectSingle == \E m \in Methods : SelectSingle(m)

DoUpdatePaymentSplit ==
  \E m \in Methods, t \in SplitInputs : UpdatePaymentSplit(m, t)

DoPayAll == \E m \in Methods : PayAll(m)

NextTender ==
  \/ TenderAddToCart
  \/ TenderRemoveFromCart
  \/ DoSetDiscount
  \/ DoSelectSingle
  \/ ToggleSplit
  \/ DoUpdatePaymentSplit
  \/ DoPayAll
  \/ ClearPayments

SpecTender == InitTender /\ [][NextTender]_vars

(***************************************************************************)
(* Customer fields (CustomerSelector.tsx; Sell.tsx 751-758).               *)
(***************************************************************************)
\* typing a name and a phone, or blanking them, with no customer selected
SetCustomerTyped(b) ==
  /\ cart # << >>
  /\ selectedCustomer = NoCustomer
  /\ customerTyped' = b
  /\ last' = Op("setCustomerTyped", "-", "")
  /\ UNCHANGED << server, products, cart, ledgerVars, selectedCustomer, customersDb,
                  saleVars >>

(***************************************************************************)
(* handleCompleteSale (Sell.tsx 292-460).  A call reads the state of the   *)
(* render it was created in: that state is its closure.  It suspends at    *)
(* the insert of a customer, at the lookup after a duplicate phone, at the *)
(* menal_process_sale call and at the tier check.                          *)
(***************************************************************************)
TypedPhone == "phone"

NewCustomerId == "new"

ExistingCustomerId == "existing"

Closure ==
  [cart |-> cart, discount |-> discount, paymentMethod |-> paymentMethod,
   showSplitPayment |-> showSplitPayment, paymentSplits |-> paymentSplits,
   selectedCustomer |-> selectedCustomer, customerTyped |-> customerTyped]

\* the method with the highest amount (Sell.tsx 370-382)
PrimaryMethodOf(split, method, s) ==
  IF split
  THEN IF s.bank > s.cash /\ s.bank > s.telebirr THEN "bank"
       ELSE IF s.telebirr > s.cash /\ s.telebirr > s.bank THEN "telebirr"
       ELSE "cash"
  ELSE method

PaymentDetailsAddsSplits(split, method, s, finalTotal) ==
  [cash |-> s.cash + (IF ~split /\ method = "cash" THEN finalTotal ELSE 0),
   bank |-> s.bank + (IF ~split /\ method = "bank" THEN finalTotal ELSE 0),
   telebirr |->
     s.telebirr + (IF ~split /\ method = "telebirr" THEN finalTotal ELSE 0),
   total_paid |-> IF split THEN TotalPaidOf(s) ELSE finalTotal,
   is_split |-> split]

PaymentDetailsRescales(split, method, s, finalTotal) ==
  [cash |-> IF split THEN finalTotal - s.bank - s.telebirr
            ELSE IF method = "cash" THEN finalTotal ELSE 0,
   bank |-> IF split THEN s.bank
            ELSE IF method = "bank" THEN finalTotal ELSE 0,
   telebirr |-> IF split THEN s.telebirr
                ELSE IF method = "telebirr" THEN finalTotal ELSE 0,
   total_paid |-> finalTotal,
   is_split |-> split]

\* paymentDetails (Sell.tsx 384-399)
PaymentDetailsOf(split, method, s, finalTotal) ==
  IF split
  THEN [cash |-> s.cash, bank |-> s.bank, telebirr |-> s.telebirr,
        total_paid |-> TotalPaidOf(s), is_split |-> TRUE]
  ELSE [cash |-> IF method = "cash" THEN finalTotal ELSE 0,
        bank |-> IF method = "bank" THEN finalTotal ELSE 0,
        telebirr |-> IF method = "telebirr" THEN finalTotal ELSE 0,
        total_paid |-> finalTotal, is_split |-> FALSE]

\* rpcItems (Sell.tsx 404-414)
RpcItems(c) ==
  [i \in DOMAIN c |->
     [productId |-> c[i].productId, quantity |-> c[i].quantity,
      price |-> ResolvePrice(c[i].price),
      originalPrice |-> ResolvePrice(c[i].price),
      total |-> ResolvePrice(c[i].price) * c[i].quantity]]

\* the arguments of menal_process_sale (Sell.tsx 417-427)
BuildPayload(cl, customerId) ==
  [p_customer_id |-> customerId,
   p_total |-> SubtotalOf(cl.cart),
   p_discount |-> DiscountAmountOf(cl.discount),
   p_final_total |-> TotalOf(cl.cart, cl.discount),
   p_payment_method |->
     PrimaryMethodOf(cl.showSplitPayment, cl.paymentMethod, cl.paymentSplits),
   p_payment_details |->
     PaymentDetailsOf(cl.showSplitPayment, cl.paymentMethod, cl.paymentSplits,
                      TotalOf(cl.cart, cl.discount)),
   p_items |-> RpcItems(cl.cart)]

PayloadOfLiveState(call) == BuildPayload(Closure, call.customerId)

PayloadOf(call) == BuildPayload(call.closure, call.customerId)

\* the calls of menal_process_sale that have not resolved
RpcCalls == {k \in DOMAIN inflight : inflight[k].pc = "rpc"}

RemoveAt(seq, k) == SubSeq(seq, 1, k - 1) \o SubSeq(seq, k + 1, Len(seq))

EmptyAlert == "Cart is empty"

PaymentAlert == "Please complete payment allocation before finalizing sale"

ButtonDisabledIgnoresProcessing == ~isPaymentComplete

\* disabled={processing || !isPaymentComplete} (Sell.tsx 887)
ButtonDisabled == processing \/ ~isPaymentComplete

\* Sell.tsx 292-341, up to the first await
HandleCompleteSale ==
  IF cart = << >>
  THEN /\ last' = Op("completeSale", "-", EmptyAlert)
       /\ UNCHANGED << server, products, cart, ledgerVars, customerVars, saleVars >>
  ELSE IF ~isPaymentComplete
  THEN /\ last' = Op("completeSale", "-", PaymentAlert)
       /\ UNCHANGED << server, products, cart, ledgerVars, customerVars, saleVars >>
  ELSE /\ processing' = TRUE
       /\ inflight' = Append(inflight,
            [pc |-> IF selectedCustomer = NoCustomer /\ customerTyped
                    THEN "insertCustomer" ELSE "rpc",
             closure |-> Closure,
             customerId |-> selectedCustomer])
       /\ last' = Op("completeSale", "-", "started")
       /\ UNCHANGED << server, products, cart, ledgerVars, customerVars,
                       showConfirmation, timers >>

\* a press of the Complete Sale button (Sell.tsx 885-893), which is rendered
\* with the cart
CompleteSale ==
  /\ cart # << >>
  /\ IF ButtonDisabled
     THEN /\ last' = Op("completeSale", "-", "disabled")
          /\ UNCHANGED << server, products, cart, ledgerVars, customerVars, saleVars >>
     ELSE HandleCompleteSale

\* the insert into menal_customers resolves (Sell.tsx 333-365)
InsertCustomerResolves(k, outcome) ==
  /\ k \in DOMAIN inflight
  /\ inflight[k].pc = "insertCustomer"
  /\ \/ /\ outcome = "created"
        /\ TypedPhone \notin customersDb
        /\ customersDb' = customersDb \cup {TypedPhone}
        /\ inflight' = [inflight EXCEPT ![k].pc = "rpc",
                                        ![k].customerId = NewCustomerId]
     \/ /\ outcome = "duplicate"
        /\ TypedPhone \in customersDb
        /\ customersDb' = customersDb
        /\ inflight' = [inflight EXCEPT ![k].pc = "lookupCustomer"]
     \/ /\ outcome = "error"
        /\ customersDb' = customersDb
        /\ inflight' = [inflight EXCEPT ![k].pc = "rpc"]
  /\ last' = Op("insertCustomer", "-", outcome)
  /\ UNCHANGED << server, products, cart, ledgerVars, selectedCustomer, customerTyped,
                  processing, showConfirmation, timers >>

\* the select by phone after error 23505 resolves (Sell.tsx 347-356)
LookupCustomerResolves(k, found) ==
  /\ k \in DOMAIN inflight
  /\ inflight[k].pc = "lookupCustomer"
  /\ inflight' = [inflight EXCEPT
                    ![k].pc = "rpc",
                    ![k].customerId =
                       IF found THEN ExistingCustomerId ELSE NoCustomer]
  /\ last' = Op("lookupCustomer", "-", "")
  /\ UNCHANGED << server, products, cart, ledgerVars, customerVars, processing,
                  showConfirmation, timers >>

SuccessToast == "Sale completed successfully!"

FailureToast == "Failed to complete sale. Please try again."

InsufficientStock == "Insufficient stock for product"

OtherFailure == "connection lost"

RpcErrors == {InsufficientStock, OtherFailure}

\* error.message.includes('Insufficient stock') (Sell.tsx 452-456)
ErrorToast(message) ==
  IF message = InsufficientStock THEN message ELSE FailureToast

\* Sell.tsx 436-448 and the finally block
Succeed(k) ==
  /\ timers < MaxTimers
  /\ showConfirmation' = TRUE
  /\ timers' = timers + 1
  /\ processing' = FALSE
  /\ inflight' = RemoveAt(inflight, k)
  /\ last' = Op("saleResolved", "-", SuccessToast)
  /\ UNCHANGED << server, products, cart, ledgerVars, customerVars >>

FailClearsCart(k, message) ==
  /\ processing' = FALSE
  /\ inflight' = RemoveAt(inflight, k)
  /\ cart' = << >>
  /\ last' = Op("saleResolved", message, ErrorToast(message))
  /\ UNCHANGED << server, products, ledgerVars, customerVars, showConfirmation,
                  timers >>

FailKeepsProcessing(k, message) ==
  /\ inflight' = RemoveAt(inflight, k)
  /\ last' = Op("saleResolved", message, ErrorToast(message))
  /\ UNCHANGED << server, products, cart, ledgerVars, customerVars, processing,
                  showConfirmation, timers >>

\* the catch block and the finally block (Sell.tsx 449-459)
Fail(k, message) ==
  /\ processing' = FALSE
  /\ inflight' = RemoveAt(inflight, k)
  /\ last' = Op("saleResolved", message, ErrorToast(message))
  /\ UNCHANGED << server, products, cart, ledgerVars, customerVars, showConfirmation,
                  timers >>

\* menal_process_sale resolves (Sell.tsx 417-434)
RpcResolves(k, outcome) ==
  /\ k \in DOMAIN inflight
  /\ inflight[k].pc = "rpc"
  /\ IF outcome \in RpcErrors THEN Fail(k, outcome)
     ELSE IF inflight[k].customerId # NoCustomer
     THEN /\ inflight' = [inflight EXCEPT ![k].pc = "tierCheck"]
          /\ last' = Op("rpcResolved", "-", "")
          /\ UNCHANGED << server, products, cart, ledgerVars, customerVars,
                          processing, showConfirmation, timers >>
     ELSE Succeed(k)

\* checkTierUpgrade returns; it catches its own errors (Sell.tsx 462-502)
TierCheckResolves(k) ==
  /\ k \in DOMAIN inflight
  /\ inflight[k].pc = "tierCheck"
  /\ Succeed(k)

\* the callback of setTimeout(..., 2000) (Sell.tsx 438-448); its
\* fetchProducts() replaces the catalog snapshot
ResetTimer(newStock) ==
  /\ timers > 0
  /\ timers' = timers - 1
  /\ cart' = << >>
  /\ discount' = NumText(0)
  /\ paymentSplits' = NoSplits
  /\ showSplitPayment' = FALSE
  /\ showConfirmation' = FALSE
  /\ selectedCustomer' = NoCustomer
  /\ customerTyped' = FALSE
  /\ products' = newStock
  /\ last' = Op("resetTimer", "-", "")
  /\ UNCHANGED << server, paymentMethod, customersDb, processing, inflight >>

Catalogs == [Products -> 1..MaxStock]

RpcOutcomes == {"ok"} \cup RpcErrors

DoRpcResolves ==
  \E k \in DOMAIN inflight, o \in RpcOutcomes : RpcResolves(k, o)

DoInsertCustomerResolves ==
  \E k \in DOMAIN inflight, o \in {"created", "duplicate", "error"} :
     InsertCustomerResolves(k, o)

DoLookupCustomerResolves ==
  \E k \in DOMAIN inflight, f \in BOOLEAN : LookupCustomerResolves(k, f)

DoTierCheckResolves == \E k \in DOMAIN inflight : TierCheckResolves(k)

DoResetTimer == \E s \in Catalogs : ResetTimer(s)

(***************************************************************************)
(* Checkout of an anonymous sale: the operator edits the cart, the         *)
(* discount and the payment, presses Complete Sale and waits for the       *)
(* result (no edit while a sale is being processed).                       *)
(***************************************************************************)
SaleDiscountInputs == {NumText(-1), NumText(1), NumText(9)}

SaleSplitInputs == {EmptyText, NumText(CatalogPrice("A"))}

SalePriceInputs == {EmptyText}

FullCatalog == [p \in Products |-> MaxStock]

InitSale == Init /\ products = FullCatalog

SaleAddToCart == ~processing /\ \E p \in Products : AddToCart(p)

SaleRemoveFromCart == ~processing /\ \E p \in Products : RemoveFromCart(p)

SaleUpdatePrice ==
  ~processing /\ \E t \in SalePriceInputs : UpdatePrice("A", t)

SaleSetDiscount == ~processing /\ \E t \in SaleDiscountInputs : SetDiscount(t)

SaleSelectSingle == ~processing /\ \E m \in Methods : SelectSingle(m)

SaleToggleSplit == ~processing /\ ToggleSplit

SaleUpdatePaymentSplit ==
  /\ ~processing
  /\ \E m \in Methods, t \in SaleSplitInputs : UpdatePaymentSplit(m, t)

SaleResetTimer == ResetTimer(FullCatalog)

Next ==
  \/ SaleAddToCart
  \/ SaleRemoveFromCart
  \/ SaleUpdatePrice
  \/ SaleSetDiscount
  \/ SaleSelectSingle
  \/ SaleToggleSplit
  \/ SaleUpdatePaymentSplit
  \/ CompleteSale
  \/ DoRpcResolves
  \/ SaleResetTimer

Spec == InitSale /\ [][Next]_vars

(***************************************************************************)
(* A sale with edits while it is being processed, and with the customer    *)
(* steps of handleCompleteSale.                                            *)
(***************************************************************************)
InflightAddToCart == AddToCart("A")

InflightSetDiscount == SetDiscount(NumText(1))

InflightSelectSingle == SelectSingle("bank")

DoSetCustomerTyped == \E b \in BOOLEAN : SetCustomerTyped(b)

NextInflight ==
  \/ InflightAddToCart
  \/ InflightSetDiscount
  \/ InflightSelectSingle
  \/ ToggleSplit
  \/ DoSetCustomerTyped
  \/ CompleteSale
  \/ DoInsertCustomerResolves
  \/ DoLookupCustomerResolves
  \/ DoRpcResolves
  \/ DoTierCheckResolves
  \/ SaleResetTimer

SpecInflight == InitSale /\ [][NextInflight]_vars

\* every awaited request settles, with a result or with an error, and the
\* callback of setTimeout runs
SpecInflightFair ==
  /\ SpecInflight
  /\ WF_vars(DoInsertCustomerResolves)
  /\ WF_vars(DoLookupCustomerResolves)
  /\ WF_vars(DoRpcResolves)
  /\ WF_vars(DoTierCheckResolves)
  /\ WF_vars(SaleResetTimer)

(***************************************************************************)
(* The loyalty discount (Sell.tsx 251-260) and the selection of a customer *)
(* (CustomerSelector.tsx 87-99).                                           *)
(***************************************************************************)
Customers == {"gold", "plain"}

\* customer.discount_percentage, from the customer's tier
DiscountPercentageOf(c) == IF c = "gold" THEN 25 ELSE 0

\* selectedCustomer?.discount_percentage || 0
tierDiscountPercentage ==
  IF selectedCustomer = NoCustomer THEN 0
  ELSE DiscountPercentageOf(selectedCustomer)

\* tierDiscountAmount in hundredths of a unit:
\* tierDiscountPercentage > 0 ? subtotal * tierDiscountPercentage / 100 : 0
tierDiscountAmountTimes100 ==
  IF tierDiscountPercentage > 0 THEN subtotal * tierDiscountPercentage ELSE 0

\* x.toFixed(2) of x = n100 / 100 units: the amounts with two decimals (even
\* numbers of units) nearest to x.  Exactly between two of them the result
\* depends on the rounding of the double, so both are possible.
ToFixed2(n100) ==
  LET cents == 0..((n100 \div 200) + 1)
      Dist(n) == Abs(200 * n - n100)
  IN  {NumText(2 * n) : n \in {m \in cents : \A o \in cents : Dist(m) <= Dist(o)}}

\* handleSelectCustomer: the customer, and their name and phone in the fields
HandleSelectCustomer(c) ==
  /\ cart # << >>
  /\ selectedCustomer' = c
  /\ customerTyped' = TRUE
  /\ last' = Op("selectCustomer", "-", "")
  /\ UNCHANGED << server, products, cart, ledgerVars, customersDb, saleVars >>

HandleClearCustomer ==
  /\ cart # << >>
  /\ selectedCustomer # NoCustomer
  /\ selectedCustomer' = NoCustomer
  /\ customerTyped' = FALSE
  /\ last' = Op("clearCustomer", "-", "")
  /\ UNCHANGED << server, products, cart, ledgerVars, customersDb, saleVars >>

\* the button is rendered when tierDiscountPercentage > 0 && selectedCustomer
ApplyTierDiscount ==
  /\ cart # << >>
  /\ selectedCustomer # NoCustomer
  /\ tierDiscountPercentage > 0
  /\ IF tierDiscountAmountTimes100 > 0
     THEN /\ discount' \in ToFixed2(tierDiscountAmountTimes100)
          /\ last' = Op("applyTierDiscount", "-", "Applied discount")
     ELSE /\ discount' = discount
          /\ last' = Op("applyTierDiscount", "-", "")
  /\ UNCHANGED << server, products, cart, paymentMethod, paymentSplits,
                  showSplitPayment, customerVars, saleVars >>

LoyaltyPriceInputs == {EmptyText, NumText(1)}

LoyaltyDiscountInputs == {NumText(1), NumText(9)}

LoyaltyAddToCart == \E p \in Products : AddToCart(p)

LoyaltyRemoveFromCart == \E p \in Products : RemoveFromCart(p)

LoyaltyUpdatePrice == \E t \in LoyaltyPriceInputs : UpdatePrice("A", t)

LoyaltySetDiscount == \E t \in LoyaltyDiscountInputs : SetDiscount(t)

DoHandleSelectCustomer == \E c \in Customers : HandleSelectCustomer(c)

NextLoyalty ==
  \/ LoyaltyAddToCart
  \/ LoyaltyRemoveFromCart
  \/ LoyaltyUpdatePrice
  \/ LoyaltySetDiscount
  \/ DoHandleSelectCustomer
  \/ HandleClearCustomer
  \/ ApplyTierDiscount

SpecLoyalty == InitSale /\ [][NextLoyalty]_vars

(***************************************************************************)
(* The server's sale routes (supabase/functions/server/index.tsx 260-460). *)
(* A route handler runs between awaited database requests; the handlers of *)
(* several requests interleave at those awaits.  Each database request is  *)
(* one step.                                                               *)
(***************************************************************************)
MaxRequests == 2

MaxSales == 2

\* no further request to reverse a sale once its items came back this often
MaxReturns == 2

\* the state of the client, which the server leaves alone
clientVars == << products, cart, ledgerVars, customerVars, saleVars, last >>

\* an id that is no row of menal_products
MissingProduct == "X"

Line(p, q) == [productId |-> p, quantity |-> q]

\* the items of the requests that are sent
SaleBodies ==
  { << >>,
    << Line("A", 1) >>,
    << Line("A", MaxStock) >>,
    << Line("A", 1), Line("B", MaxStock + 1) >>,
    << Line("B", 1), Line(MissingProduct, 1) >> }

Request(route, pc, items, id) ==
  [route |-> route, pc |-> pc, items |-> items, i |-> 1, product |-> 0,
   id |-> id, took |-> 0]

Respond(route, status, error, took) ==
  [route |-> route, status |-> status, error |-> error, took |-> took]

NotFound == "not found"

InsufficientStockFor == "Insufficient stock for"

AlreadyReversed == "Sale already reversed"

\* POST /sales up to the first await (index.tsx 260-270)
PostSales(items) ==
  /\ Len(requests) < MaxRequests
  /\ Len(menal_sales) < MaxSales
  /\ IF items = << >>
     THEN /\ response' = Respond("sales", 400, "No items in cart", 0)
          /\ requests' = requests
     ELSE /\ requests' = Append(requests, Request("sales", "select", items, 0))
          /\ response' = response
  /\ UNCHANGED << clientVars, menal_products, menal_sales, deducted, returned >>

\* the select of the item's product returns, and the checks on it
\* (index.tsx 275-287)
SaleSelectProduct(r) ==
  /\ r \in DOMAIN requests
  /\ requests[r].route = "sales"
  /\ requests[r].pc = "select"
  /\ LET item == requests[r].items[requests[r].i]
     IN  IF item.productId \notin DOMAIN menal_products
         THEN /\ response' = Respond("sales", 404, NotFound, requests[r].took)
              /\ requests' = RemoveAt(requests, r)
         ELSE IF menal_products[item.productId] < item.quantity
         THEN /\ response' =
                   Respond("sales", 400, InsufficientStockFor, requests[r].took)
              /\ requests' = RemoveAt(requests, r)
         ELSE /\ requests' =
                   [requests EXCEPT ![r].product = menal_products[item.productId],
                                    ![r].pc = "update"]
              /\ response' = response
  /\ UNCHANGED << clientVars, menal_products, menal_sales, deducted, returned >>

\* update({ stock: product.stock - item.quantity }) (index.tsx 303-307)
SaleDeductStock(r) ==
  /\ r \in DOMAIN requests
  /\ requests[r].route = "sales"
  /\ requests[r].pc = "update"
  /\ LET item == requests[r].items[requests[r].i]
     IN  /\ menal_products' =
              [menal_products EXCEPT
                 ![item.productId] = requests[r].product - item.quantity]
         /\ deducted' = [deducted EXCEPT ![item.productId] = @ + item.quantity]
         /\ requests' =
              [requests EXCEPT
                 ![r].took = @ + item.quantity,
                 ![r].i = @ + 1,
                 ![r].pc = IF requests[r].i = Len(requests[r].items)
                           THEN "insert" ELSE "select"]
  /\ UNCHANGED << clientVars, menal_sales, response, returned >>

\* the inserts into menal_sales and menal_sale_items and the response
\* (index.tsx 310-364); an error of an insert is thrown and answered with 500
SaleInsert(r, ok) ==
  /\ r \in DOMAIN requests
  /\ requests[r].route = "sales"
  /\ requests[r].pc = "insert"
  /\ IF ok
     THEN /\ menal_sales' =
               Append(menal_sales,
                      [items |-> requests[r].items, is_reversed |-> FALSE])
          /\ returned' = Append(returned, [j \in DOMAIN requests[r].items |-> 0])
          /\ response' = Respond("sales", 200, "", requests[r].took)
     ELSE /\ response' = Respond("sales", 500, "insert failed", requests[r].took)
          /\ UNCHANGED << menal_sales, returned >>
  /\ requests' = RemoveAt(requests, r)
  /\ UNCHANGED << clientVars, menal_products, deducted >>

DoPostSales == \E items \in SaleBodies : PostSales(items)

DoSaleSelectProduct == \E r \in DOMAIN requests : SaleSelectProduct(r)

DoSaleDeductStock == \E r \in DOMAIN requests : SaleDeductStock(r)

DoSaleInsert == \E r \in DOMAIN requests, ok \in BOOLEAN : SaleInsert(r, ok)

NextServerSales ==
  \/ DoPostSales
  \/ DoSaleSelectProduct
  \/ DoSaleDeductStock
  \/ DoSaleInsert

SpecServerSales == InitSale /\ [][NextServerSales]_vars

\* POST /sales/:id/reverse up to the first await (index.tsx 394-405)
PostReverse(id) ==
  /\ Len(requests) < MaxRequests
  /\ id \in DOMAIN returned
       => \A j \in DOMAIN returned[id] : returned[id][j] < MaxReturns
  /\ requests' = Append(requests, Request("reverse", "selectSale", << >>, id))
  /\ UNCHANGED << clientVars, menal_products, menal_sales, response, deducted,
                  returned >>

\* the select of the sale with its items returns, and the checks on it
\* (index.tsx 399-413)
ReverseSelectSale(r) ==
  /\ r \in DOMAIN requests
  /\ requests[r].route = "reverse"
  /\ requests[r].pc = "selectSale"
  /\ IF requests[r].id \notin DOMAIN menal_sales
     THEN /\ response' = Respond("reverse", 404, "Sale not found", 0)
          /\ requests' = RemoveAt(requests, r)
     ELSE IF menal_sales[requests[r].id].is_reversed
     THEN /\ response' = Respond("reverse", 400, AlreadyReversed, 0)
          /\ requests' = RemoveAt(requests, r)
     ELSE /\ requests' =
               [requests EXCEPT ![r].items = menal_sales[requests[r].id].items,
                                ![r].pc = "select"]
          /\ response' = response
  /\ UNCHANGED << clientVars, menal_products, menal_sales, deducted, returned >>

\* where the loop over sale.items goes after item i (index.tsx 416)
ReverseAfterItem(req) ==
  [req EXCEPT !.i = @ + 1,
              !.pc = IF req.i = Len(req.items) THEN "mark" ELSE "select"]

\* the select of the stock of the item's product returns (index.tsx 417-423)
ReverseSelectProduct(r) ==
  /\ r \in DOMAIN requests
  /\ requests[r].route = "reverse"
  /\ requests[r].pc = "select"
  /\ LET item == requests[r].items[requests[r].i]
     IN  requests' =
           IF item.productId \in DOMAIN menal_products
           THEN [requests EXCEPT ![r].product = menal_products[item.productId],
                                 ![r].pc = "update"]
           ELSE [requests EXCEPT ![r] = ReverseAfterItem(requests[r])]
  /\ UNCHANGED << clientVars, menal_products, menal_sales, response, deducted,
                  returned >>

\* update({ stock: product.stock + item.quantity }) (index.tsx 424-427)
ReverseAddStock(r) ==
  /\ r \in DOMAIN requests
  /\ requests[r].route = "reverse"
  /\ requests[r].pc = "update"
  /\ LET item == requests[r].items[requests[r].i]
     IN  /\ menal_products' =
              [menal_products EXCEPT
                 ![item.productId] = requests[r].product + item.quantity]
         /\ returned' =
              [returned EXCEPT ![requests[r].id][requests[r].i] = @ + 1]
         /\ requests' =
              [requests EXCEPT ![r] =
                 ReverseAfterItem([requests[r] EXCEPT !.took = @ + item.quantity])]
  /\ UNCHANGED << clientVars, menal_sales, response, deducted >>

\* the update that marks the sale reversed returns, and the response
\* (index.tsx 430-455); an error of the update is thrown and answered with 500
ReverseMark(r, ok) ==
  /\ r \in DOMAIN requests
  /\ requests[r].route = "reverse"
  /\ requests[r].pc = "mark"
  /\ IF ok
     THEN /\ menal_sales' =
               [menal_sales EXCEPT ![requests[r].id].is_reversed = TRUE]
          /\ response' = Respond("reverse", 200, "", requests[r].took)
     ELSE /\ menal_sales' = menal_sales
          /\ response' = Respond("reverse", 500, "update failed", requests[r].took)
  /\ requests' = RemoveAt(requests, r)
  /\ UNCHANGED << clientVars, menal_products, deducted, returned >>

\* the sales that get reversed
ReverseSaleBodies == { << Line("A", 1) >>, << Line("A", 1), Line("B", 1) >> }

\* sales are made one at a time while no other request is running
ReversePostSales ==
  requests = << >> /\ \E items \in ReverseSaleBodies : PostSales(items)

ReverseSaleInsert == \E r \in DOMAIN requests : SaleInsert(r, TRUE)

\* requests to reverse arrive together, for sales made or not
DoPostReverse ==
  /\ \A r \in DOMAIN requests : requests[r].route = "reverse"
  /\ \E id \in 1..MaxSales : PostReverse(id)

DoReverseSelectSale == \E r \in DOMAIN requests : ReverseSelectSale(r)

DoReverseSelectProduct == \E r \in DOMAIN requests : ReverseSelectProduct(r)

DoReverseAddStock == \E r \in DOMAIN requests : ReverseAddStock(r)

DoReverseMark == \E r \in DOMAIN requests, ok \in BOOLEAN : ReverseMark(r, ok)

NextServerReverse ==
  \/ ReversePostSales
  \/ DoSaleSelectProduct
  \/ DoSaleDeductStock
  \/ ReverseSaleInsert
  \/ DoPostReverse
  \/ DoReverseSelectSale
  \/ DoReverseSelectProduct
  \/ DoReverseAddStock
  \/ DoReverseMark

SpecServerReverse == InitSale /\ [][NextServerReverse]_vars

(***************************************************************************)
(* Properties.                                                             *)
(***************************************************************************)
\* the price a line contributes: its number, 0 while the price is unset
LinePrice(item) == IF item.price.type = "string" THEN 0 ELSE item.price.num

RECURSIVE SumOfLines(_, _)
SumOfLines(c, S) ==
  IF S = {} THEN 0
  ELSE LET i == CHOOSE j \in S : TRUE
       IN  c[i].quantity * LinePrice(c[i]) + SumOfLines(c, S \ {i})

HasUnsetPrice(c) == \E i \in DOMAIN c : c[i].price = StringV(EmptyText)

\* C1: the quantity of a cart line never exceeds the stock recorded on the
\* line when the product was first added, also when the catalog snapshot is
\* refreshed with another stock between the calls.
C1_QuantityWithinRecordedStock ==
  \A i \in DOMAIN cart : cart[i].quantity <= cart[i].stock

\* C2: the cart holds at most one line per product, and addToCart of a
\* product that has a line increments that line's quantity and adds no line.
C2_OneLinePerProduct ==
  [][ /\ \A p \in Products : Cardinality(Matching(cart', p)) <= 1
      /\ last'.op = "addToCart" =>
           \/ cart' = cart
           \/ \E i \in DOMAIN cart : cart' = [cart EXCEPT ![i].quantity = @ + 1]
           \/ /\ Len(cart') = Len(cart) + 1
              /\ SubSeq(cart', 1, Len(cart)) = cart
              /\ ~HasItem(cart, cart'[Len(cart')].productId) ]_vars

C2_Witness ==
  /\ last.op = "addToCart"
  /\ last.signal = ""
  /\ Len(cart) = 1
  /\ cart[1].quantity = 2

\* C3: the subtotal of a render, and the subtotal a running sale computed
\* from its cart, is the sum over the lines of quantity times price, a line
\* with an unset price counting 0.
C3_SubtotalIsSumOfLines ==
  /\ subtotal = SumOfLines(cart, DOMAIN cart)
  /\ \A k \in RpcCalls :
        PayloadOf(inflight[k]).p_total =
          SumOfLines(inflight[k].closure.cart, DOMAIN inflight[k].closure.cart)

C3_Witness ==
  /\ RpcCalls # {}
  /\ Len(cart) = 2
  /\ HasUnsetPrice(cart)
  /\ subtotal > 0
  /\ \E k \in RpcCalls : inflight[k].closure.cart = cart

\* C4: when the entered discount is at least the subtotal, the discount in
\* the payload of menal_process_sale equals the subtotal and the final total
\* is 0, so that final total = subtotal - discount in the payload.
C4_PayloadDiscountFloored ==
  \A k \in RpcCalls :
     LET pl == PayloadOf(inflight[k])
     IN  DiscountAmountOf(inflight[k].closure.discount) >= pl.p_total =>
           /\ pl.p_discount = pl.p_total
           /\ pl.p_final_total = 0
           /\ pl.p_final_total = pl.p_total - pl.p_discount

\* C5: in split mode with |total - total paid| >= 0.01, a press of Complete
\* Sale starts no sale: nothing is sent to menal_customers or to
\* menal_process_sale.
C5_SplitMismatchSendsNothing ==
  [][ (showSplitPayment /\ Abs(remaining) >= Epsilon
         /\ last'.op = "completeSale")
      => (inflight' = inflight /\ customersDb' = customersDb
            /\ processing' = processing) ]_vars

C5_Witness ==
  /\ last.op = "completeSale"
  /\ last.signal = "disabled"
  /\ ~processing
  /\ showSplitPayment
  /\ Abs(remaining) >= Epsilon

\* C6: right after payAll(method) the amounts paid are within 0.01 of the
\* total, whatever the other two methods held.
C6_PayAllCompletes ==
  last.op = "payAll" => isPaymentComplete

C8_ResetToDefaults ==
  last.op = "resetTimer" =>
    /\ cart = << >>
    /\ discountAmount = 0
    /\ ~showSplitPayment
    /\ paymentMethod = "cash"
    /\ paymentSplits = NoSplits

\* C9: no step of handleCompleteSale up to and including the rejection of
\* the sale changes the cart lines, the discount, the payment mode, the
\* single method or the split amounts.
C9_RejectedSaleKeepsState ==
  [][ last'.op \in {"completeSale", "insertCustomer", "lookupCustomer",
                    "rpcResolved", "saleResolved"}
      => UNCHANGED << cart, discount, showSplitPayment, paymentMethod,
                      paymentSplits >> ]_vars

C9_Witness ==
  /\ last.op = "saleResolved"
  /\ last.signal \in {InsufficientStock, FailureToast}
  /\ cart # << >>
  /\ discountAmount > 0
  /\ paymentMethod = "bank"

\* C10: at most one call of handleCompleteSale is running at any time, and
\* a press of Complete Sale while one is running starts nothing.
C10_OneSaleInFlight ==
  [][ /\ Len(inflight') <= 1
      /\ (processing /\ last'.op = "completeSale") => inflight' = inflight
    ]_vars

C10_Witness ==
  /\ last.op = "completeSale"
  /\ last.signal = "disabled"
  /\ processing
  /\ isPaymentComplete
  /\ Cardinality(RpcCalls) = 1

\* C11: no running sale was started from a cart with a line whose price is
\* unset: a press of Complete Sale in that state sends nothing.
C11_UnsetPriceBlocksSubmit ==
  \A k \in DOMAIN inflight : ~HasUnsetPrice(inflight[k].closure.cart)

\* C12: in single mode with a non-empty cart and no sale being processed, a
\* press of Complete Sale starts a sale, whatever the split amounts and the
\* discount are; the payment check is true in single mode.
C12_SingleModeAlwaysSubmits ==
  [][ /\ ~showSplitPayment' => isPaymentComplete'
      /\ (~showSplitPayment /\ cart # << >> /\ ~processing
            /\ last'.op = "completeSale")
         => /\ Len(inflight') = Len(inflight) + 1
            /\ processing'
            /\ inflight'[Len(inflight')].closure.cart = cart ]_vars

C12_Witness ==
  /\ last.op = "completeSale"
  /\ last.signal = "started"
  /\ ~showSplitPayment
  /\ paymentSplits.bank > 0
  /\ Abs(remaining) >= Epsilon
  /\ discountAmount > subtotal
  /\ Len(inflight) = 1

\* the payment details and the method sent by a running sale
DetailsOf(call) == PayloadOf(call).p_payment_details

\* C13: the payload of a sale started in single mode gives the final total
\* to the selected method and 0 to the two others, names the selected method
\* as the payment method, and holds none of the split amounts.
C13_SinglePayloadTender ==
  \A k \in RpcCalls :
     LET cl == inflight[k].closure
         pl == PayloadOf(inflight[k])
     IN  ~cl.showSplitPayment =>
           /\ pl.p_payment_method = cl.paymentMethod
           /\ \A m \in Methods :
                 DetailsOf(inflight[k])[m] =
                   IF m = cl.paymentMethod THEN pl.p_final_total ELSE 0
           /\ DetailsOf(inflight[k]).total_paid = pl.p_final_total
           /\ ~DetailsOf(inflight[k]).is_split

C13_Witness ==
  \E k \in RpcCalls :
     /\ ~inflight[k].closure.showSplitPayment
     /\ inflight[k].closure.paymentMethod = "bank"
     /\ inflight[k].closure.paymentSplits.cash > 0
     /\ inflight[k].closure.paymentSplits.bank > 0
     /\ PayloadOf(inflight[k]).p_final_total > 0

\* C14: the payload of a sale started in split mode holds the three split
\* amounts of the ledger as they were when Complete Sale was pressed,
\* unscaled, and their sum is within 0.01 of the payload's final total.
C14_SplitPayloadVerbatim ==
  [][ \A k \in DOMAIN inflight' :
         LET call == inflight'[k]
         IN  call.closure.showSplitPayment =>
               /\ \A m \in Methods :
                     DetailsOf(call)[m] = call.closure.paymentSplits[m]
               /\ Abs(DetailsOf(call).cash + DetailsOf(call).bank
                        + DetailsOf(call).telebirr
                        - PayloadOf(call).p_final_total) < Epsilon
               /\ (last'.op = "completeSale" /\ inflight' # inflight)
                    => call.closure.paymentSplits = paymentSplits ]_vars

C14_Witness ==
  \E k \in RpcCalls :
     /\ inflight[k].closure.showSplitPayment
     /\ inflight[k].closure.paymentSplits.cash > 0
     /\ TotalPaidOf(inflight[k].closure.paymentSplits)
          # PayloadOf(inflight[k]).p_final_total

\* the largest of the three split amounts
MaxSplit(s) == Max(s.cash, Max(s.bank, s.telebirr))

\* C15: the payment method in the payload of a sale started in split mode
\* is a method holding the largest split amount, cash before bank before
\* telebirr when several hold it.
C15_PrimaryMethodIsLargest ==
  \A k \in RpcCalls :
     LET s == inflight[k].closure.paymentSplits
         pm == PayloadOf(inflight[k]).p_payment_method
     IN  inflight[k].closure.showSplitPayment =>
           /\ s[pm] = MaxSplit(s)
           /\ pm = IF s.cash = MaxSplit(s) THEN "cash"
                   ELSE IF s.bank = MaxSplit(s) THEN "bank"
                   ELSE "telebirr"

\* C16: selecting a single method and switching split mode on or off leave
\* the three split amounts as they are.
C16_ModeSwitchKeepsSplits ==
  [][ last'.op \in {"selectSingle", "toggleSplit"}
      => paymentSplits' = paymentSplits ]_vars

C16_Witness ==
  /\ last.op = "toggleSplit"
  /\ showSplitPayment
  /\ paymentMethod = "telebirr"
  /\ paymentSplits.cash = 1
  /\ paymentSplits.bank = MaxAmount

\* C17: updatePaymentSplit with a negative or a non-numeric value leaves the
\* split amounts as they were, and no split amount is ever negative.
C17_InvalidSplitRejected ==
  [][ /\ \A m \in Methods : paymentSplits'[m] >= 0
      /\ (last'.op = "updatePaymentSplit"
            /\ last'.arg \in {"negative", "non-numeric"})
         => paymentSplits' = paymentSplits ]_vars

\* C18: updateQuantity never brings a quantity below 1 and never removes a
\* line (a decrement of a line at quantity 1 changes nothing); every line
\* has quantity at least 1, and a line leaves the cart only by
\* removeFromCart or by the reset of a completed sale.
C18_QuantityFloorOne ==
  [][ /\ \A i \in DOMAIN cart' : cart'[i].quantity >= 1
      /\ last'.op = "updateQuantity" =>
           /\ Len(cart') = Len(cart)
           /\ \A i \in DOMAIN cart :
                 /\ cart'[i].productId = cart[i].productId
                 /\ (last'.arg = "dec" /\ cart[i].quantity = 1)
                      => cart'[i] = cart[i]
      /\ (\E p \in Products : HasItem(cart, p) /\ ~HasItem(cart', p))
         => last'.op \in {"removeFromCart", "resetTimer"} ]_vars

C18_Witness ==
  /\ last.op = "updateQuantity"
  /\ last.arg = "dec"
  /\ last.signal = ""
  /\ Len(cart) = 2
  /\ \A i \in DOMAIN cart : cart[i].quantity = 1

\* C19: when addToCart or updateQuantity refuses with the stock alert, the
\* cart is unchanged: same lines, same quantities, same prices.
C19_StockRejectKeepsCart ==
  [][ last'.signal = StockAlert => cart' = cart ]_vars

C19_Witness ==
  /\ last.op = "addToCart"
  /\ last.signal = StockAlert
  /\ Len(cart) = 2
  /\ HasUnsetPrice(cart)

\* C20: the discount in the payload of a sale is never negative and the
\* final total never exceeds the subtotal, whatever was typed in the discount
\* field.
C20_DiscountNeverNegative ==
  \A k \in RpcCalls :
     /\ PayloadOf(inflight[k]).p_discount >= 0
     /\ PayloadOf(inflight[k]).p_final_total <= PayloadOf(inflight[k]).p_total

\* C21: selecting, changing or clearing the customer leaves the discount as
\* it is; the discount changes only by typing it or by applyTierDiscount
\* (or the reset of a completed sale), and applyTierDiscount sets it to
\* subtotal * percentage / 100 of the subtotal at that moment.
C21_LoyaltyDiscountAdvisory ==
  [][ /\ last'.op \in {"selectCustomer", "clearCustomer"}
           => discount' = discount
      /\ discount' # discount
           => last'.op \in {"setDiscount", "applyTierDiscount", "resetTimer"}
      /\ last'.op = "applyTierDiscount"
           => 100 * DiscountAmountOf(discount')
                = subtotal * tierDiscountPercentage ]_vars

\* C22: a sale that fails has created no customer: the call of
\* handleCompleteSale that ends with an error toast did not insert a row in
\* menal_customers.
C22_FailedSaleCreatesNoCustomer ==
  [][ (last'.op = "saleResolved"
         /\ last'.signal \in {InsufficientStock, FailureToast})
      => \A k \in DOMAIN inflight : inflight[k].customerId # NewCustomerId
    ]_vars

\* C23: a failed sale is reported with the message the backend returned,
\* for insufficient stock and for every other failure alike.
C23_ErrorMessageVerbatim ==
  (last.op = "saleResolved" /\ last.arg \in RpcErrors)
    => last.signal = last.arg

\* C24: a sale that started ends, and when no sale is running processing is
\* false, so that Complete Sale is enabled again: whatever the insert of the
\* customer, the sale call and the tier check return.
C24_ProcessingAlwaysCleared ==
  /\ [](inflight = << >> => ~processing)
  /\ (inflight # << >>) ~> (inflight = << >> /\ ~processing)

C24_Witness ==
  /\ last.op = "saleResolved"
  /\ last.arg = OtherFailure
  /\ customersDb # {}
  /\ inflight = << >>
  /\ ~processing
  /\ ~ButtonDisabled

\* C25: isOverpaid is true exactly in split mode with the amounts paid more
\* than 0.01 above the total; it is false in single mode, and it is never
\* true together with isPaymentComplete.
C25_OverpaidOnlyInSplitMode ==
  /\ isOverpaid <=> (showSplitPayment /\ totalPaid - total > Epsilon)
  /\ ~(isOverpaid /\ isPaymentComplete)

\* C26: a request to create a sale that is refused because a product is
\* missing or short of stock has deducted no stock and has created no sale,
\* also when earlier items of it passed the check.
C26_RejectedSaleChangesNothing ==
  [][ (Len(requests') < Len(requests)
         /\ response'.route = "sales"
         /\ response'.error \in {NotFound, InsufficientStockFor})
      => /\ response'.took = 0
         /\ menal_sales' = menal_sales ]_vars

\* the quantity of a product in the sales that are recorded
RECURSIVE SoldQty(_, _)
SoldQty(sales, p) ==
  IF sales = << >> THEN 0
  ELSE SoldQty(Tail(sales), p)
       + SumOfLines([j \in DOMAIN Head(sales).items |->
                       [quantity |-> IF Head(sales).items[j].productId = p
                                     THEN Head(sales).items[j].quantity ELSE 0,
                        price |-> NumberV(1)]],
                    DOMAIN Head(sales).items)

\* C27: whatever the interleaving of the requests, the quantity recorded as
\* sold of a product is at most the stock there was, and the stock is what
\* there was less every deduction made.
C27_NoOversellNoLostDecrement ==
  \A p \in Products :
     /\ SoldQty(menal_sales, p) <= MaxStock
     /\ menal_products[p] = MaxStock - deducted[p]

\* C30: the items of a sale are put back in stock at most once, and a
\* request to reverse a sale that is marked reversed is refused and changes
\* no stock.
C30_ReversedAtMostOnce ==
  [][ /\ \A s \in DOMAIN returned' :
            \A j \in DOMAIN returned'[s] : returned'[s][j] <= 1
      /\ (Len(requests') < Len(requests) /\ response'.error = AlreadyReversed)
         => menal_products' = menal_products ]_vars

\* the items, totals and payment of a payload, without the customer
SaleOf(pl) == [pl EXCEPT !.p_customer_id = NoCustomer]

\* what a running sale sends
PayloadSent(call) == SaleOf(PayloadOf(call))

\* C28: the items, totals and payment that a running sale sends are those of
\* the cart, discount and payment at the press of Complete Sale, whatever
\* is edited while the sale is running, the insert of the customer included.
C28_PayloadFixedAtSubmit ==
  [][ Len(inflight') >= Len(inflight) =>
        \A k \in DOMAIN inflight' :
           PayloadSent(inflight[k])' =
             IF k \in DOMAIN inflight
             THEN PayloadSent(inflight[k])
             ELSE SaleOf(BuildPayload(Closure, NoCustomer))
    ]_vars

C28_Witness ==
  \E k \in RpcCalls :
     /\ inflight[k].customerId = NewCustomerId
     /\ inflight[k].closure.cart # cart
     /\ inflight[k].closure.discount # discount
     /\ inflight[k].closure.paymentMethod # paymentMethod
     /\ inflight[k].closure.showSplitPayment # showSplitPayment

\* C29: between the success of a sale and the reset that empties the cart,
\* a press of Complete Sale starts no sale, and a line added in that time is
\* not thrown away by the reset.
C29_CartConsumedOnce ==
  [][ /\ (timers > 0 /\ last'.op = "completeSale") => inflight' = inflight
      /\ (last.op = "addToCart" /\ last.signal = ""
            /\ last'.op = "resetTimer")
         => cart' = cart ]_vars

====
